---- MODULE Spec2Model ----
(***************************************************************************)
(* ABCD assessment orchestration (src/analyse.py): the run wrapper         *)
(* analyse, the CLI entry point main and the per-video pipeline            *)
(* execute_abcd_assessment_for_videos, with the external collaborators     *)
(* (creative provider, annotation generator, trimmer, evaluation service,  *)
(* report printer, cleanup, utils) as nondeterministic environments that   *)
(* either return or raise.                                                 *)
(***************************************************************************)
EXTENDS Naturals, Sequences, FiniteSets

\* ------------------------------------------------------------------ bounds
\* Longest locator sequence the creative provider returns.
MaxVideos == 2

\* ------------------------------------------------------------- vocabulary
\* The two needles of the consistency check (analyse.py:54 and :64).  A
\* locator is a sequence of text pieces; each needle is one piece.
GcsScheme == "gs://"

YoutubeUrl == "https://www.youtube.com"

GCS == "GCS"

YOUTUBE == "YOUTUBE"

LONG_FORM_ABCD == "LONG_FORM_ABCD"

SHORTS == "SHORTS"

CreativeProviderType == {GCS, YOUTUBE}

\* Locators the provider may return: the needle first, or the needle after
\* other text, for each of the two needles.
Locators ==
    { <<GcsScheme, "bucket/video1.mp4">>,
      <<"https://cdn.example/?src=", GcsScheme, "bucket/video1.mp4">>,
      <<YoutubeUrl, "/watch?v=abc">>,
      <<"https://proxy.example/?to=", YoutubeUrl, "/watch?v=abc">> }

\* Sequences over S of length 0..n.
SeqsUpTo(S, n) == UNION { [1..k -> S] : k \in 0..n }

VideoLists == SeqsUpTo(Locators, MaxVideos)

\* What evaluate_features may return: no evaluated feature, or some.
FeatureEvaluations == { <<>>, <<"feature A", "feature B">> }

\* The exception a collaborator may raise (a subclass of Exception).
Errors == {"collaborator failed"}

\* The arguments of one invocation: the video list and the brand metadata
\* (brand_name and the four brand detail lists, here all four alike).
BrandInputs ==
    { [brand_name |-> "", details |-> <<>>],
      [brand_name |-> "Acme", details |-> <<>>],
      [brand_name |-> "", details |-> <<"Acme Cola">>] }

ArgVideoUris ==
    { <<>>, << <<GcsScheme, "bucket/video1.mp4">> >> }

\* ------------------------------------------------------------------ state
VARIABLES
    entry,        \* which entry point runs: "analyse" or "main"
    args,         \* the arguments of the invocation
    config,       \* <<>> until built, then <<Configuration>>
    builds,       \* number of configurations built in this invocation
    pc,           \* position in the entry point / orchestrator
    redirected,   \* redirect_stdout/redirect_stderr to buffer is active
    buffer,       \* lines captured in the io.StringIO buffer
    console,      \* lines that reached the normal stdout/stderr
    exc,          \* exception in flight or handled ("" when none)
    result,       \* <<>> until analyse returns, then <<dict>>
    video_uris,   \* orchestrator local: the provider's locators
    idx,          \* orchestrator local: position of the for loop
    long_feats,   \* orchestrator local: long_form_abcd_evaluated_features
    shorts_feats, \* orchestrator local: shorts_evaluated_features
    assessments,  \* VideoAssessment records built, in order
    calls,        \* every collaborator and logging call, in order
    halted,       \* index at which the consistency check broke the loop, or 0
    run1          \* <<>>, or <<record of an earlier run kept for comparison>>

vars == << entry, args, config, builds, pc, redirected, buffer, console,
           exc, result, video_uris, idx, long_feats, shorts_feats,
           assessments, calls, halted, run1 >>

\* What belongs to the comparison of two runs and to no run itself.
harness_vars == << run1 >>

orch_locals == << video_uris, idx, long_feats, shorts_feats, assessments,
                  halted >>

\* ---------------------------------------------------------------- helpers
\* One line of output: fixed text, the locator and the exception it quotes.
Line(text) == [text |-> text, uri |-> <<>>, ex |-> ""]

LineUri(text, uri) == [text |-> text, uri |-> uri, ex |-> ""]

LineEx(text, ex) == [text |-> text, uri |-> <<>>, ex |-> ex]

NoLine == Line("")

\* One collaborator call: the function, the loop position it was made at
\* (0 outside the loop), its video_uri and features_category arguments, the
\* features it was given (print) or returned (evaluate), and whether it
\* returned or raised; brand is the brand_name argument of a print call and
\* uris the locators a get_creative_uris call returned.
Call(fn, at, uri, cat, feats, ok) ==
    [fn |-> fn, at |-> at, uri |-> uri, cat |-> cat, feats |-> feats,
     ok |-> ok, line |-> NoLine, brand |-> "", uris |-> <<>>]

\* One logging.info / logging.error call, recorded like a collaborator call.
LogCall(level, at, line) ==
    [fn |-> level, at |-> at, uri |-> line.uri, cat |-> "", feats |-> <<>>,
     ok |-> TRUE, line |-> line, brand |-> "", uris |-> <<>>]

INFO == "logging.info"

ERROR == "logging.error"

\* The external collaborators of the orchestrator.
Collaborators ==
    { "get_creative_uris", "generate_video_annotations", "trim_video",
      "evaluate_features", "print_abcd_assessment",
      "remove_local_video_files" }

\* Python's `needle in text`: the needle occurs at some position.
Contains(needle, text) == \E k \in 1..Len(text) : text[k] = needle

\* Python's text.startswith(needle).
StartsWith(needle, text) == Len(text) > 0 /\ text[1] = needle

HasLine(lines, text) == \E k \in 1..Len(lines) : lines[k].text = text

cfg == config[1]

\* ------------------------------------------------- utils (not under src/)
\* utils.invalid_brand_metadata: true iff no brand-identifying field is
\* populated.
invalid_brand_metadata(c) ==
    /\ c.brand_name = ""
    /\ c.brand_variations = <<>>
    /\ c.branded_products = <<>>
    /\ c.branded_products_categories = <<>>
    /\ c.branded_call_to_actions = <<>>

\* utils.build_custom_config: the configurations it may build from the
\* arguments; provider type and feature flags are its own choice.
build_custom_config(a) ==
    { [creative_provider_type |-> t,
       video_uris |-> a.video_uris,
       brand_name |-> a.brand.brand_name,
       brand_variations |-> a.brand.details,
       branded_products |-> a.brand.details,
       branded_products_categories |-> a.brand.details,
       branded_call_to_actions |-> a.brand.details,
       use_annotations |-> f[1],
       run_long_form_abcd |-> f[2],
       run_shorts |-> f[3]] :
      t \in CreativeProviderType, f \in [1..3 -> BOOLEAN] }

\* ------------------------------------------------------- output and raise
\* print(...): the lines go to the buffer while the redirection is active
\* and to the normal sink otherwise.
PrintLines(lines) ==
    IF redirected
    THEN buffer' = buffer \o lines /\ console' = console
    ELSE buffer' = buffer /\ console' = console \o lines

\* logging.info / logging.error at loop position `at`.
Log(level, at, line) == calls' = Append(calls, LogCall(level, at, line))

\* AfterWithExit when the redirection is never undone.
AfterWithExit_Kept(r) == r

\* Leaving the `with redirect_stdout(buffer), redirect_stderr(buffer)`
\* block, by return, by fall-through or by an exception: the redirection is
\* undone.
AfterWithExit(r) == FALSE

\* Raise when the failure is swallowed where it happens and the loop goes
\* on with the cleanup of the current video.
Raise_Swallowed(e) ==
    /\ exc' = exc
    /\ pc' = "cleanup"
    /\ redirected' = redirected

\* An exception raised inside the try block: it unwinds to the except
\* clause of the entry point, leaving the with block on the way.
Raise(e) ==
    /\ exc' = e
    /\ pc' = "except"
    /\ redirected' = AfterWithExit(redirected)

\* The dict analyse returns on the invalid-metadata path (analyse.py:181).
InvalidResult(logs) == [error |-> "Invalid brand metadata", logs |-> logs]

\* LogsResult with an error key on every path.
LogsResult_WithError(logs) == [error |-> "ABCD assessment failed", logs |-> logs]

\* The dict analyse returns otherwise (analyse.py:199).
LogsResult(logs) == [logs |-> logs]

\* HasVideos when the emptiness check is left out.
HasVideos_Always(c) == TRUE

\* `if config.video_uris:` (analyse.py:186, :228).
HasVideos(c) == c.video_uris # <<>>

\* ------------------------------------------------------------------- Init
Init ==
    /\ entry \in {"analyse", "main"}
    /\ args \in [video_uris : ArgVideoUris, brand : BrandInputs]
    /\ config = <<>>
    /\ builds = 0
    /\ pc = "call"
    /\ redirected = FALSE
    /\ buffer = <<>>
    /\ console = <<>>
    /\ exc = ""
    /\ result = <<>>
    /\ video_uris = <<>>
    /\ idx = 0
    /\ long_feats = <<>>
    /\ shorts_feats = <<>>
    /\ assessments = <<>>
    /\ calls = <<>>
    /\ halted = 0
    /\ run1 = <<>>

\* ---------------------------------------------------------------- analyse
\* buffer = io.StringIO(); try: with redirect_stdout(buffer), ...
AnalyseEnter ==
    /\ entry = "analyse" /\ pc = "call"
    /\ redirected' = TRUE
    /\ pc' = "build"
    /\ UNCHANGED << entry, args, config, builds, buffer, console,
                    exc, result, calls >>
    /\ UNCHANGED orch_locals
    /\ UNCHANGED harness_vars

\* config = utils.build_custom_config(video_uris, brand_name, ...)
AnalyseBuildConfig ==
    /\ entry = "analyse" /\ pc = "build"
    /\ \/ /\ \E c \in build_custom_config(args) : config' = <<c>>
          /\ builds' = builds + 1
          /\ pc' = "validate"
          /\ UNCHANGED << redirected, exc >>
       \/ /\ \E e \in Errors : Raise(e)
          /\ UNCHANGED << config, builds >>
    /\ UNCHANGED << entry, args, buffer, console, result, calls >>
    /\ UNCHANGED orch_locals
    /\ UNCHANGED harness_vars

\* AnalyseValidate without the early return: the message is printed and
\* the run goes on.
AnalyseValidate_NoReturn ==
    /\ entry = "analyse" /\ pc = "validate"
    /\ IF invalid_brand_metadata(cfg)
       THEN PrintLines(<<Line("Invalid brand metadata. Please provide brand details."),
                         Line("Starting ABCD assessment...")>>)
       ELSE PrintLines(<<Line("Starting ABCD assessment...")>>)
    /\ pc' = "dispatch"
    /\ UNCHANGED << entry, args, config, builds, exc, calls, result,
                    redirected >>
    /\ UNCHANGED orch_locals
    /\ UNCHANGED harness_vars

\* if utils.invalid_brand_metadata(config): print; return {error, logs}
\* else: print("Starting ABCD assessment...")
AnalyseValidate ==
    /\ entry = "analyse" /\ pc = "validate"
    /\ IF invalid_brand_metadata(cfg)
       THEN /\ PrintLines(<<Line("Invalid brand metadata. Please provide brand details.")>>)
            /\ result' = <<InvalidResult(buffer')>>
            /\ redirected' = AfterWithExit(redirected)
            /\ pc' = "returned"
       ELSE /\ PrintLines(<<Line("Starting ABCD assessment...")>>)
            /\ pc' = "dispatch"
            /\ UNCHANGED << result, redirected >>
    /\ UNCHANGED << entry, args, config, builds, exc, calls >>
    /\ UNCHANGED orch_locals
    /\ UNCHANGED harness_vars

\* if config.video_uris: execute_abcd_assessment_for_videos(config)
\* else: print("There are no videos to process."); print(took); return
AnalyseDispatch ==
    /\ entry = "analyse" /\ pc = "dispatch"
    /\ IF HasVideos(cfg)
       THEN /\ pc' = "get_uris"
            /\ UNCHANGED << buffer, console, result, redirected >>
       ELSE /\ PrintLines(<<Line("There are no videos to process."),
                            Line("ABCD assessment took")>>)
            /\ result' = <<LogsResult(buffer')>>
            /\ redirected' = AfterWithExit(redirected)
            /\ pc' = "returned"
    /\ UNCHANGED << entry, args, config, builds, exc, calls >>
    /\ UNCHANGED orch_locals
    /\ UNCHANGED harness_vars

\* The orchestrator returned: print("Finished ABCD assessment.");
\* print(took); leave the with block; return {"logs": buffer.getvalue()}
AnalyseFinish ==
    /\ entry = "analyse" /\ pc = "orch_done"
    /\ PrintLines(<<Line("Finished ABCD assessment."),
                    Line("ABCD assessment took")>>)
    /\ result' = <<LogsResult(buffer')>>
    /\ redirected' = AfterWithExit(redirected)
    /\ pc' = "returned"
    /\ UNCHANGED << entry, args, config, builds, exc, calls >>
    /\ UNCHANGED orch_locals
    /\ UNCHANGED harness_vars

\* What traceback.print_exc writes for the exception being handled: the
\* header with the stack, then the line "<type>: <message>".
TraceLines(e) ==
    << Line("Traceback (most recent call last):"),
       LineEx("Exception:", e) >>

\* AnalyseExcept with traceback.print_exc() as in main: the trace goes to
\* stderr.
AnalyseExcept_TraceToStderr ==
    /\ entry = "analyse" /\ pc = "except"
    /\ PrintLines(<<LineEx("ERROR:", exc)>> \o TraceLines(exc))
    /\ result' = <<LogsResult(buffer')>>
    /\ pc' = "returned"
    /\ UNCHANGED << entry, args, config, builds, redirected, exc,
                    calls >>
    /\ UNCHANGED orch_locals
    /\ UNCHANGED harness_vars

\* except Exception as ex: print("ERROR:", ex);
\* traceback.print_exc(file=buffer); return {"logs": buffer.getvalue()}
\* The print goes where stdout points now; the trace goes to the buffer.
AnalyseExcept ==
    /\ entry = "analyse" /\ pc = "except"
    /\ LET error == LineEx("ERROR:", exc)
           logs == IF redirected THEN buffer \o <<error>> \o TraceLines(exc)
                                 ELSE buffer \o TraceLines(exc)
       IN  /\ buffer' = logs
           /\ console' = IF redirected THEN console
                                       ELSE Append(console, error)
           /\ result' = <<LogsResult(logs)>>
    /\ pc' = "returned"
    /\ UNCHANGED << entry, args, config, builds, redirected, exc,
                    calls >>
    /\ UNCHANGED orch_locals
    /\ UNCHANGED harness_vars

\* ------------------------------------------------------------------- main
\* try: args = utils.parse_args(arg_list)
MainParseArgs ==
    /\ entry = "main" /\ pc = "call"
    /\ \/ /\ pc' = "build"
          /\ UNCHANGED << redirected, exc >>
       \/ \E e \in Errors : Raise(e)
    /\ UNCHANGED << entry, args, config, builds, buffer, console,
                    result, calls >>
    /\ UNCHANGED orch_locals
    /\ UNCHANGED harness_vars

\* config = utils.build_custom_config(args)
MainBuildConfig ==
    /\ entry = "main" /\ pc = "build"
    /\ \/ /\ \E c \in build_custom_config(args) : config' = <<c>>
          /\ builds' = builds + 1
          /\ pc' = "validate"
          /\ UNCHANGED << redirected, exc >>
       \/ /\ \E e \in Errors : Raise(e)
          /\ UNCHANGED << config, builds >>
    /\ UNCHANGED << entry, args, buffer, console, result, calls >>
    /\ UNCHANGED orch_locals
    /\ UNCHANGED harness_vars

\* if utils.invalid_brand_metadata(config): logging.error x2; return
\* else: logging.info("Starting ABCD assessment...")
MainValidate ==
    /\ entry = "main" /\ pc = "validate"
    /\ IF invalid_brand_metadata(cfg)
       THEN /\ calls' = calls \o
                  << LogCall(ERROR, 0, Line("The Extract Brand Metadata option is disabled and no brand details were defined.")),
                     LogCall(ERROR, 0, Line("Please enable the option or define brand details.")) >>
            /\ pc' = "returned"
       ELSE /\ Log(INFO, 0, Line("Starting ABCD assessment..."))
            /\ pc' = "dispatch"
    /\ UNCHANGED << entry, args, config, builds, redirected, buffer, console,
                    exc, result >>
    /\ UNCHANGED orch_locals
    /\ UNCHANGED harness_vars

\* MainDispatch without the emptiness test on config.video_uris.
MainDispatch_Always ==
    /\ entry = "main" /\ pc = "dispatch"
    /\ pc' = "get_uris"
    /\ UNCHANGED << entry, args, config, builds, redirected, buffer, console,
                    exc, result, calls >>
    /\ UNCHANGED orch_locals
    /\ UNCHANGED harness_vars

\* if config.video_uris: execute_abcd_assessment_for_videos(config)
\* else: logging.info("There are no videos to process."); logging.info(took)
MainDispatch ==
    /\ entry = "main" /\ pc = "dispatch"
    /\ IF HasVideos(cfg)
       THEN /\ pc' = "get_uris"
            /\ UNCHANGED calls
       ELSE /\ calls' = calls \o
                  << LogCall(INFO, 0, Line("There are no videos to process.")),
                     LogCall(INFO, 0, Line("ABCD assessment took")) >>
            /\ pc' = "returned"
    /\ UNCHANGED << entry, args, config, builds, redirected, buffer, console,
                    exc, result >>
    /\ UNCHANGED orch_locals
    /\ UNCHANGED harness_vars

\* The orchestrator returned: logging.info("Finished ..."); logging.info(took)
MainFinish ==
    /\ entry = "main" /\ pc = "orch_done"
    /\ calls' = calls \o
           << LogCall(INFO, 0, Line("Finished ABCD assessment.")),
              LogCall(INFO, 0, Line("ABCD assessment took")) >>
    /\ pc' = "returned"
    /\ UNCHANGED << entry, args, config, builds, redirected, buffer, console,
                    exc, result >>
    /\ UNCHANGED orch_locals
    /\ UNCHANGED harness_vars

\* except Exception as ex: logging.error("ERROR: %s", ex);
\* traceback.print_exc()  (to stderr)
MainExcept ==
    /\ entry = "main" /\ pc = "except"
    /\ Log(ERROR, 0, LineEx("ERROR:", exc))
    /\ console' = console \o TraceLines(exc)
    /\ pc' = "returned"
    /\ UNCHANGED << entry, args, config, builds, redirected, buffer, exc,
                    result >>
    /\ UNCHANGED orch_locals
    /\ UNCHANGED harness_vars

\* ------------------------------ execute_abcd_assessment_for_videos(config)
\* Validate that creative provider matches the video uri (analyse.py:52-70).
ProviderMismatch(c, uri) ==
    \/ /\ c.creative_provider_type = GCS
       /\ ~Contains(GcsScheme, uri)
    \/ /\ c.creative_provider_type = YOUTUBE
       /\ ~Contains(YoutubeUrl, uri)

\* AnnotationsGate without the provider condition.
AnnotationsGate_FlagOnly(c) == c.use_annotations

\* Annotations are generated only for GCS providers (analyse.py:76-79).
AnnotationsGate(c) ==
    c.use_annotations /\ c.creative_provider_type = GCS

\* The video is trimmed only for GCS providers (analyse.py:83-86).
TrimGate(c) ==
    c.run_long_form_abcd /\ c.creative_provider_type = GCS

\* LongFormGate reading the other track's flag.
LongFormGate_Shorts(c) == c.run_shorts

\* `if config.run_long_form_abcd:` (analyse.py:93).
LongFormGate(c) == c.run_long_form_abcd

\* `if config.run_shorts:` (analyse.py:102).
ShortsGate(c) == c.run_shorts

\* HasFeatures when the emptiness test is left out.
HasFeatures_Always(feats) == TRUE

\* `if len(features) > 0:` (analyse.py:120, :130).
HasFeatures(feats) == Len(feats) > 0

\* models.VideoAssessment(...) as built at analyse.py:111-117.
VideoAssessment(c, uri, long, shorts) ==
    [brand_name |-> c.brand_name,
     video_uri |-> uri,
     long_form_abcd_evaluated_features |-> long,
     shorts_evaluated_features |-> shorts,
     config |-> c]

wrapper_vars == << entry, args, config, builds, result >>

\* CallRaises with one retry of the failing call before giving up.
CallRaises_Retried(call) ==
    /\ \E e \in Errors : Raise(e)
    /\ calls' = calls \o <<call, call>>

\* A collaborator call that raises: it is recorded and the exception leaves
\* the orchestrator, which has no try block of its own.
CallRaises(call) ==
    /\ \E e \in Errors : Raise(e)
    /\ calls' = Append(calls, call)

\* GetCreativeUris when the loop runs over config.video_uris and not over
\* what the provider returned.
GetCreativeUris_UsesConfigList ==
    /\ pc = "get_uris"
    /\ \/ /\ \E uris \in VideoLists :
                calls' = Append(calls,
                    [Call("get_creative_uris", 0, <<>>, "", <<>>, TRUE)
                         EXCEPT !.uris = uris])
          /\ video_uris' = cfg.video_uris
          /\ idx' = 1
          /\ pc' = "check"
          /\ UNCHANGED << redirected, exc >>
       \/ /\ CallRaises(Call("get_creative_uris", 0, <<>>, "", <<>>, FALSE))
          /\ UNCHANGED << video_uris, idx >>
    /\ UNCHANGED << buffer, console, long_feats, shorts_feats,
                    assessments, halted >>
    /\ UNCHANGED wrapper_vars
    /\ UNCHANGED harness_vars

\* GetCreativeUris when the resolved locators are written back into
\* config.video_uris.
GetCreativeUris_WritesBack ==
    /\ pc = "get_uris"
    /\ \/ /\ \E uris \in VideoLists :
                /\ video_uris' = uris
                /\ config' = <<[cfg EXCEPT !.video_uris = uris]>>
                /\ calls' = Append(calls,
                       [Call("get_creative_uris", 0, <<>>, "", <<>>, TRUE)
                            EXCEPT !.uris = uris])
          /\ idx' = 1
          /\ pc' = "check"
          /\ UNCHANGED << redirected, exc >>
       \/ /\ CallRaises(Call("get_creative_uris", 0, <<>>, "", <<>>, FALSE))
          /\ UNCHANGED << video_uris, idx, config >>
    /\ UNCHANGED << buffer, console, long_feats, shorts_feats,
                    assessments, halted >>
    /\ UNCHANGED << entry, args, builds, result >>
    /\ UNCHANGED harness_vars

\* provider_factory.get_provider(...); video_uris =
\* creative_provider.get_creative_uris(config); for video_uri in video_uris
GetCreativeUris ==
    /\ pc = "get_uris"
    /\ \/ /\ \E uris \in VideoLists :
                /\ video_uris' = uris
                /\ calls' = Append(calls,
                       [Call("get_creative_uris", 0, <<>>, "", <<>>, TRUE)
                            EXCEPT !.uris = uris])
          /\ idx' = 1
          /\ pc' = "check"
          /\ UNCHANGED << redirected, exc >>
       \/ /\ CallRaises(Call("get_creative_uris", 0, <<>>, "", <<>>, FALSE))
          /\ UNCHANGED << video_uris, idx >>
    /\ UNCHANGED << buffer, console, long_feats, shorts_feats,
                    assessments, halted >>
    /\ UNCHANGED wrapper_vars
    /\ UNCHANGED harness_vars

\* ConsistencyCheck with `continue` in place of `break`: the offending
\* video is skipped and the loop goes on.
ConsistencyCheck_Continue ==
    /\ pc = "check"
    /\ IF idx > Len(video_uris)
       THEN /\ pc' = "orch_done"
            /\ UNCHANGED << calls, buffer, console, halted, idx >>
       ELSE IF ProviderMismatch(cfg, video_uris[idx])
       THEN /\ Log(ERROR, idx,
                   LineUri("The creative provider does not match with the video uri. Stopping execution.",
                           video_uris[idx]))
            /\ halted' = IF halted = 0 THEN idx ELSE halted
            /\ idx' = idx + 1
            /\ pc' = "check"
            /\ UNCHANGED << buffer, console >>
       ELSE /\ Log(INFO, idx,
                   LineUri("Processing ABCD Assessment for video",
                           video_uris[idx]))
            /\ PrintLines(<<LineUri("Processing ABCD Assessment for video",
                                    video_uris[idx])>>)
            /\ pc' = "annotate"
            /\ UNCHANGED << halted, idx >>
    /\ UNCHANGED << redirected, exc, video_uris, long_feats, shorts_feats,
                    assessments >>
    /\ UNCHANGED wrapper_vars
    /\ UNCHANGED harness_vars

\* The head of one iteration: the loop ends when the locators are used up;
\* a locator that does not match the provider logs an error and breaks;
\* otherwise the "Processing ..." message is logged and printed.
ConsistencyCheck ==
    /\ pc = "check"
    /\ IF idx > Len(video_uris)
       THEN /\ pc' = "orch_done"
            /\ UNCHANGED << calls, buffer, console, halted >>
       ELSE IF ProviderMismatch(cfg, video_uris[idx])
       THEN /\ Log(ERROR, idx,
                   LineUri("The creative provider does not match with the video uri. Stopping execution.",
                           video_uris[idx]))
            /\ halted' = idx
            /\ pc' = "orch_done"
            /\ UNCHANGED << buffer, console >>
       ELSE /\ Log(INFO, idx,
                   LineUri("Processing ABCD Assessment for video",
                           video_uris[idx]))
            /\ PrintLines(<<LineUri("Processing ABCD Assessment for video",
                                    video_uris[idx])>>)
            /\ pc' = "annotate"
            /\ UNCHANGED halted
    /\ UNCHANGED << redirected, exc, video_uris, idx, long_feats,
                    shorts_feats, assessments >>
    /\ UNCHANGED wrapper_vars
    /\ UNCHANGED harness_vars

\* if use_annotations and GCS: generate_video_annotations(config, video_uri)
GenerateAnnotations ==
    /\ pc = "annotate"
    /\ LET call(ok) == Call("generate_video_annotations", idx,
                            video_uris[idx], "", <<>>, ok)
       IN  IF AnnotationsGate(cfg)
           THEN \/ /\ calls' = Append(calls, call(TRUE))
                   /\ pc' = "trim"
                   /\ UNCHANGED << redirected, exc >>
                \/ CallRaises(call(FALSE))
           ELSE /\ pc' = "trim"
                /\ UNCHANGED << calls, redirected, exc >>
    /\ UNCHANGED << buffer, console >>
    /\ UNCHANGED orch_locals
    /\ UNCHANGED wrapper_vars
    /\ UNCHANGED harness_vars

\* if run_long_form_abcd and GCS: trim_video(config, video_uri)
TrimVideo ==
    /\ pc = "trim"
    /\ LET call(ok) == Call("trim_video", idx, video_uris[idx], "", <<>>, ok)
       IN  IF TrimGate(cfg)
           THEN \/ /\ calls' = Append(calls, call(TRUE))
                   /\ pc' = "eval_long"
                   /\ UNCHANGED << redirected, exc >>
                \/ CallRaises(call(FALSE))
           ELSE /\ pc' = "eval_long"
                /\ UNCHANGED << calls, redirected, exc >>
    /\ UNCHANGED << buffer, console >>
    /\ UNCHANGED orch_locals
    /\ UNCHANGED wrapper_vars
    /\ UNCHANGED harness_vars

\* long_form_abcd_evaluated_features = []; shorts_evaluated_features = [];
\* if run_long_form_abcd: long_form_... = evaluate_features(LONG_FORM_ABCD)
EvaluateLongForm ==
    /\ pc = "eval_long"
    /\ LET call(feats, ok) == Call("evaluate_features", idx, video_uris[idx],
                                   LONG_FORM_ABCD, feats, ok)
       IN  IF LongFormGate(cfg)
           THEN \/ /\ \E feats \in FeatureEvaluations :
                         /\ long_feats' = feats
                         /\ calls' = Append(calls, call(feats, TRUE))
                   /\ shorts_feats' = <<>>
                   /\ pc' = "eval_shorts"
                   /\ UNCHANGED << redirected, exc >>
                \/ /\ CallRaises(call(<<>>, FALSE))
                   /\ long_feats' = <<>>
                   /\ shorts_feats' = <<>>
           ELSE /\ long_feats' = <<>>
                /\ shorts_feats' = <<>>
                /\ pc' = "eval_shorts"
                /\ UNCHANGED << calls, redirected, exc >>
    /\ UNCHANGED << buffer, console, video_uris, idx, assessments,
                    halted >>
    /\ UNCHANGED wrapper_vars
    /\ UNCHANGED harness_vars

\* if run_shorts: shorts_evaluated_features = evaluate_features(SHORTS)
EvaluateShorts ==
    /\ pc = "eval_shorts"
    /\ LET call(feats, ok) == Call("evaluate_features", idx, video_uris[idx],
                                   SHORTS, feats, ok)
       IN  IF ShortsGate(cfg)
           THEN \/ /\ \E feats \in FeatureEvaluations :
                         /\ shorts_feats' = feats
                         /\ calls' = Append(calls, call(feats, TRUE))
                   /\ pc' = "assess"
                   /\ UNCHANGED << redirected, exc >>
                \/ /\ CallRaises(call(<<>>, FALSE))
                   /\ UNCHANGED shorts_feats
           ELSE /\ pc' = "assess"
                /\ UNCHANGED << shorts_feats, calls, redirected, exc >>
    /\ UNCHANGED << buffer, console, video_uris, idx, long_feats,
                    assessments, halted >>
    /\ UNCHANGED wrapper_vars
    /\ UNCHANGED harness_vars

\* video_assessment = models.VideoAssessment(brand_name=..., ...)
BuildAssessment ==
    /\ pc = "assess"
    /\ assessments' = Append(assessments,
           VideoAssessment(cfg, video_uris[idx], long_feats, shorts_feats))
    /\ pc' = "report_long"
    /\ UNCHANGED << redirected, buffer, console, exc, video_uris,
                    idx, long_feats, shorts_feats, calls, halted >>
    /\ UNCHANGED wrapper_vars
    /\ UNCHANGED harness_vars

\* One track's report: print_abcd_assessment(brand_name, video_uri, feats)
\* when there are features, else the logged note.
Report(feats, cat, note, next) ==
    LET va == assessments[Len(assessments)]
        call(ok) == [Call("print_abcd_assessment", idx, va.video_uri, cat,
                          feats, ok) EXCEPT !.brand = va.brand_name]
    IN  IF HasFeatures(feats)
        THEN /\ \/ /\ calls' = Append(calls, call(TRUE))
                   /\ pc' = next
                   /\ UNCHANGED << redirected, exc >>
                \/ CallRaises(call(FALSE))
        ELSE /\ Log(INFO, idx, Line(note))
             /\ pc' = next
             /\ UNCHANGED << redirected, exc >>

\* if len(long_form_abcd_evaluated_features) > 0: print ... else: note
ReportLongForm ==
    /\ pc = "report_long"
    /\ Report(long_feats, LONG_FORM_ABCD,
              "There are not Full ABCD evaluated features results to display.",
              "report_shorts")
    /\ UNCHANGED << buffer, console >>
    /\ UNCHANGED orch_locals
    /\ UNCHANGED wrapper_vars
    /\ UNCHANGED harness_vars

\* if len(shorts_evaluated_features) > 0: print ... else: note
ReportShorts ==
    /\ pc = "report_shorts"
    /\ Report(shorts_feats, SHORTS,
              "There are not Shorts evaluated features results to display.",
              "cleanup")
    /\ UNCHANGED << buffer, console >>
    /\ UNCHANGED orch_locals
    /\ UNCHANGED wrapper_vars
    /\ UNCHANGED harness_vars

\* RemoveLocalFiles that cleans up only where preprocessing can have
\* materialized files (GCS).
RemoveLocalFiles_OnlyGcs ==
    /\ pc = "cleanup"
    /\ LET call(ok) == Call("remove_local_video_files", idx, <<>>, "", <<>>,
                            ok)
       IN  IF cfg.creative_provider_type = GCS
           THEN \/ /\ calls' = Append(calls, call(TRUE))
                   /\ idx' = idx + 1
                   /\ pc' = "check"
                   /\ UNCHANGED << redirected, exc >>
                \/ /\ CallRaises(call(FALSE))
                   /\ UNCHANGED idx
           ELSE /\ idx' = idx + 1
                /\ pc' = "check"
                /\ UNCHANGED << calls, redirected, exc >>
    /\ UNCHANGED << buffer, console, video_uris, long_feats, shorts_feats,
                    assessments, halted >>
    /\ UNCHANGED wrapper_vars
    /\ UNCHANGED harness_vars

\* generic_helpers.remove_local_video_files(), then the next iteration.
RemoveLocalFiles ==
    /\ pc = "cleanup"
    /\ LET call(ok) == Call("remove_local_video_files", idx, <<>>, "", <<>>,
                            ok)
       IN  \/ /\ calls' = Append(calls, call(TRUE))
              /\ idx' = idx + 1
              /\ pc' = "check"
              /\ UNCHANGED << redirected, exc >>
           \/ /\ CallRaises(call(FALSE))
              /\ UNCHANGED idx
    /\ UNCHANGED << buffer, console, video_uris, long_feats,
                    shorts_feats, assessments, halted >>
    /\ UNCHANGED wrapper_vars
    /\ UNCHANGED harness_vars

\* ------------------------------------------------------- after the return
\* The caller goes on after the entry point returned (main.py:25-33) and
\* writes to standard output.
WriteAfterRun ==
    /\ pc = "returned"
    /\ PrintLines(<<Line("after the run")>>)
    /\ pc' = "after"
    /\ UNCHANGED << redirected, exc, calls >>
    /\ UNCHANGED orch_locals
    /\ UNCHANGED wrapper_vars
    /\ UNCHANGED harness_vars

Next ==
    \/ AnalyseEnter
    \/ AnalyseBuildConfig
    \/ AnalyseValidate
    \/ AnalyseDispatch
    \/ AnalyseFinish
    \/ AnalyseExcept
    \/ MainParseArgs
    \/ MainBuildConfig
    \/ MainValidate
    \/ MainDispatch
    \/ MainFinish
    \/ MainExcept
    \/ GetCreativeUris
    \/ ConsistencyCheck
    \/ GenerateAnnotations
    \/ TrimVideo
    \/ EvaluateLongForm
    \/ EvaluateShorts
    \/ BuildAssessment
    \/ ReportLongForm
    \/ ReportShorts
    \/ RemoveLocalFiles
    \/ WriteAfterRun

Spec == Init /\ [][Next]_vars

\* ================================================================ claims
Returned == pc \in {"returned", "after"}

Built == config # <<>>

InOrchestrator ==
    pc \in { "get_uris", "check", "annotate", "trim", "eval_long",
             "eval_shorts", "assess", "report_long", "report_shorts",
             "cleanup", "orch_done" }

\* Positions of the trace `calls` that are collaborator calls.
CollaboratorCalls == { k \in 1..Len(calls) : calls[k].fn \in Collaborators }

\* Positions of the calls of fn made at loop position `at`.
CallsAt(fn, at) ==
    { k \in 1..Len(calls) : calls[k].fn = fn /\ calls[k].at = at }

InvalidLine == "Invalid brand metadata. Please provide brand details."

\* C1: whenever the configuration built has invalid brand metadata, no
\* collaborator has been called and the orchestrator is not running; when
\* analyse has returned, its result has exactly the keys error and logs and
\* the logs hold the 'Invalid brand metadata' message; main has returned no
\* result.
C1_InvalidMetadataStopsRun ==
    (Built /\ invalid_brand_metadata(cfg)) =>
        /\ CollaboratorCalls = {}
        /\ ~InOrchestrator
        /\ exc = ""
        /\ Returned =>
              IF entry = "analyse"
              THEN /\ result # <<>>
                   /\ DOMAIN result[1] = {"error", "logs"}
                   /\ HasLine(result[1].logs, InvalidLine)
              ELSE result = <<>>

C1_Witness ==
    /\ entry = "analyse"
    /\ Returned
    /\ Built /\ invalid_brand_metadata(cfg)
    /\ cfg.video_uris # <<>>
    /\ result # <<>>

\* Smallest loop position whose locator fails the consistency check, or
\* Len(uris) + 1 when every locator passes.
FirstMismatch(c, uris) ==
    LET bad == { k \in 1..Len(uris) : ProviderMismatch(c, uris[k]) }
    IN  IF bad = {} THEN Len(uris) + 1
        ELSE CHOOSE k \in bad : \A j \in bad : k <= j

\* The iteration at loop position k ran to its end: its assessment was
\* built and its cleanup call returned.
Completed(k) ==
    /\ k <= Len(assessments)
    /\ \E p \in CallsAt("remove_local_video_files", k) : calls[p].ok

\* C2: no call of any kind is ever made at or after the position of the
\* first locator that fails the consistency check; when the loop reaches
\* that position it breaks there without an exception, every earlier video
\* has been processed completely, and the orchestrator returns normally.
C2_MismatchHaltsBatch ==
    Built =>
      LET first == FirstMismatch(cfg, video_uris)
      IN  /\ \A k \in CollaboratorCalls : calls[k].at < first
          /\ Len(assessments) < first
          /\ \A k \in 1..Len(calls) :
                (calls[k].fn = INFO /\ calls[k].at > 0) => calls[k].at < first
          /\ idx <= first
          /\ halted # 0 =>
                /\ halted = first
                /\ exc = ""
                /\ pc \in {"orch_done", "returned", "after"}
                /\ \A j \in 1..(halted - 1) : Completed(j)
          /\ (pc = "orch_done" /\ first <= Len(video_uris)) => halted = first

C2_Witness ==
    /\ Returned
    /\ halted = 1
    /\ Len(video_uris) = 2
    /\ ~ProviderMismatch(cfg, video_uris[2])

\* C3: when an exception was raised inside analyse, analyse returns (the
\* exception does not stay in flight) a result whose only key is logs; the
\* logs are the buffer, they hold the full trace, and a line of them
\* carries the exception message.
C3_ExceptionBecomesLogs ==
    (entry = "analyse" /\ exc # "") =>
        /\ pc \in {"except", "returned", "after"}
        /\ pc = "except" => result = <<>>
        /\ Returned =>
              /\ result # <<>>
              /\ DOMAIN result[1] = {"logs"}
              /\ result[1].logs = buffer
              /\ \E k \in 1..Len(result[1].logs) :
                    result[1].logs[k].ex = exc
              /\ \E k \in 1..(Len(result[1].logs) - 1) :
                    /\ result[1].logs[k] = TraceLines(exc)[1]
                    /\ result[1].logs[k + 1] = TraceLines(exc)[2]

C3_Witness ==
    /\ entry = "analyse" /\ Returned /\ exc # ""
    /\ idx = 1
    /\ calls # <<>>
    /\ calls[Len(calls)].fn = "trim_video"
    /\ ~calls[Len(calls)].ok
    /\ result # <<>>

\* C4: once analyse has returned, on any path, the redirection is released
\* and a line written afterwards is on the normal sink and not in the
\* buffer; when it returned after an exception, the lines printed before
\* the exception (the start line and one "Processing" line per video
\* started) are in the returned logs.
C4_RedirectionScoped ==
    (entry = "analyse") =>
        /\ Returned => ~redirected /\ result # <<>>
        /\ pc = "after" =>
              /\ console # <<>>
              /\ console[Len(console)] = Line("after the run")
              /\ ~HasLine(buffer, "after the run")
              /\ buffer = result[1].logs
        /\ (Returned /\ exc # "") =>
              /\ Built => HasLine(result[1].logs, "Starting ABCD assessment...")
              /\ \A k \in 1..idx :
                    \E n \in 1..Len(result[1].logs) :
                        result[1].logs[n] =
                            LineUri("Processing ABCD Assessment for video",
                                    video_uris[k])

C4_Witness ==
    /\ entry = "analyse"
    /\ pc = "after"
    /\ exc # ""
    /\ idx = 2

\* The iteration at loop position k is past its two preprocessing steps.
PassedPreprocessing(k) ==
    \/ k < idx
    \/ /\ k = idx
       /\ pc \in { "eval_long", "eval_shorts", "assess", "report_long",
                   "report_shorts", "cleanup" }

\* C5: a call of generate_video_annotations (trim_video) is made only when
\* use_annotations (run_long_form_abcd) is set and the provider is GCS, with
\* the locator of its iteration and once per iteration; and every iteration
\* that is past preprocessing has had exactly one such call when the gate
\* is open and none otherwise; so none at all under YOUTUBE.
C5_PreprocessingGates ==
    Built =>
      LET gcs == cfg.creative_provider_type = GCS
          once(fn, on) ==
              /\ \A p \in 1..Len(calls) :
                    calls[p].fn = fn =>
                        /\ on /\ gcs
                        /\ calls[p].uri = video_uris[calls[p].at]
                        /\ Cardinality(CallsAt(fn, calls[p].at)) = 1
              /\ \A k \in 1..Len(video_uris) :
                    PassedPreprocessing(k) =>
                        /\ Cardinality(CallsAt(fn, k)) =
                               IF on /\ gcs THEN 1 ELSE 0
                        /\ \A p \in CallsAt(fn, k) : calls[p].ok
      IN  /\ once("generate_video_annotations", cfg.use_annotations)
          /\ once("trim_video", cfg.run_long_form_abcd)

C5_Witness ==
    /\ Built
    /\ cfg.creative_provider_type = GCS
    /\ cfg.use_annotations /\ cfg.run_long_form_abcd /\ ~cfg.run_shorts
    /\ pc = "eval_long" /\ idx = 1
    /\ video_uris[1] = <<GcsScheme, "bucket/video1.mp4">>
    /\ Cardinality(CallsAt("generate_video_annotations", 1)) = 1
    /\ Cardinality(CallsAt("trim_video", 1)) = 1

\* Positions of the evaluate_features calls of one iteration and category.
EvalCalls(k, cat) ==
    { p \in CallsAt("evaluate_features", k) : calls[p].cat = cat }

\* The feature sequence an assessment carries for one track: what the one
\* call returned when the track is enabled, the empty sequence and no call
\* when it is not.
TrackCarries(k, cat, enabled, feats) ==
    IF enabled
    THEN \E p \in EvalCalls(k, cat) :
            /\ EvalCalls(k, cat) = {p}
            /\ calls[p].ok
            /\ calls[p].feats = feats
    ELSE EvalCalls(k, cat) = {} /\ feats = <<>>

\* C6: evaluate_features is called with LONG_FORM_ABCD only if
\* run_long_form_abcd and with SHORTS only if run_shorts, with the locator of
\* its iteration; every assessment built carries both feature sequences,
\* each being what the service returned for that video and category when
\* the track is enabled (one call) and empty when it is not (no call).
C6_EvaluationTracks ==
    Built =>
      /\ \A p \in 1..Len(calls) :
            calls[p].fn = "evaluate_features" =>
                /\ calls[p].cat \in {LONG_FORM_ABCD, SHORTS}
                /\ calls[p].cat = LONG_FORM_ABCD => cfg.run_long_form_abcd
                /\ calls[p].cat = SHORTS => cfg.run_shorts
                /\ calls[p].uri = video_uris[calls[p].at]
      /\ \A k \in 1..Len(assessments) :
            LET va == assessments[k]
            IN  /\ va.video_uri = video_uris[k]
                /\ va.brand_name = cfg.brand_name
                /\ { "long_form_abcd_evaluated_features",
                     "shorts_evaluated_features" } \subseteq DOMAIN va
                /\ TrackCarries(k, LONG_FORM_ABCD, cfg.run_long_form_abcd,
                                va.long_form_abcd_evaluated_features)
                /\ TrackCarries(k, SHORTS, cfg.run_shorts,
                                va.shorts_evaluated_features)

C6_Witness ==
    /\ Built
    /\ ~cfg.run_long_form_abcd /\ cfg.run_shorts
    /\ Len(assessments) = 2
    /\ assessments[1].long_form_abcd_evaluated_features = <<>>
    /\ assessments[1].shorts_evaluated_features # <<>>
    /\ assessments[2].shorts_evaluated_features = <<>>

\* C7: the result of analyse always has the key logs and nothing but logs
\* and error; it has error iff the configuration was built and its brand
\* metadata is invalid; a run halted by a mismatch returns only logs, with
\* no exception, and its logs report the assessment as finished.
C7_ResultKeys ==
    (entry = "analyse" /\ Returned) =>
        /\ result # <<>>
        /\ "logs" \in DOMAIN result[1]
        /\ DOMAIN result[1] \subseteq {"error", "logs"}
        /\ "error" \in DOMAIN result[1] <=>
              (Built /\ invalid_brand_metadata(cfg))
        /\ halted # 0 =>
              /\ exc = ""
              /\ DOMAIN result[1] = {"logs"}
              /\ HasLine(result[1].logs, "Finished ABCD assessment.")

C7_Witness ==
    /\ entry = "analyse" /\ Returned
    /\ halted = 2
    /\ result # <<>>
    /\ DOMAIN result[1] = {"logs"}

NoVideosLine == "There are no videos to process."

\* C8: with valid brand metadata and an empty config.video_uris the
\* orchestrator is never entered and no collaborator is called; the run
\* returns with the 'no videos to process' line emitted (in the logs of
\* analyse, through the logger in main), without an exception and without an
\* error key.
C8_EmptyVideoList ==
    (Built /\ ~invalid_brand_metadata(cfg) /\ cfg.video_uris = <<>>) =>
        /\ ~InOrchestrator
        /\ CollaboratorCalls = {}
        /\ exc = ""
        /\ Returned =>
              IF entry = "analyse"
              THEN /\ result # <<>>
                   /\ DOMAIN result[1] = {"logs"}
                   /\ HasLine(result[1].logs, NoVideosLine)
              ELSE \E p \in 1..Len(calls) :
                      calls[p] = LogCall(INFO, 0, Line(NoVideosLine))

C8_Witness ==
    /\ entry = "analyse" /\ Returned
    /\ Built /\ ~invalid_brand_metadata(cfg) /\ cfg.video_uris = <<>>
    /\ result # <<>>
    /\ HasLine(result[1].logs, NoVideosLine)

\* The prefix the configured provider requires of a locator.
ProviderPrefix(c) ==
    IF c.creative_provider_type = GCS THEN GcsScheme ELSE YoutubeUrl

\* C9 (as claimed): every video that receives a preprocessing, evaluation,
\* reporting or cleanup step has a locator that starts with the prefix of
\* the configured provider.
C9_ProcessedLocatorsStartWithPrefix ==
    Built =>
      \A p \in CollaboratorCalls :
          calls[p].at > 0 =>
              StartsWith(ProviderPrefix(cfg), video_uris[calls[p].at])

IsReport(p, k, cat, note) ==
    /\ calls[p].at = k
    /\ \/ calls[p].fn = "print_abcd_assessment" /\ calls[p].cat = cat
       \/ calls[p].fn = INFO /\ calls[p].line.text = note

\* C10: every iteration that ran to its end has exactly one call of
\* remove_local_video_files; each such call comes after the report of the
\* long-form track and the report of the shorts track of its iteration,
\* after every other call of its iteration and before every call of a
\* later iteration.
C10_CleanupEveryIteration ==
    /\ \A k \in 1..Len(video_uris) :
          k < idx =>
              /\ Cardinality(CallsAt("remove_local_video_files", k)) = 1
              /\ Completed(k)
    /\ \A p \in 1..Len(calls) :
          calls[p].fn = "remove_local_video_files" =>
              LET k == calls[p].at
              IN  /\ Cardinality(CallsAt("remove_local_video_files", k)) = 1
                  /\ \E q1, q2 \in 1..(p - 1) :
                        /\ q1 < q2
                        /\ IsReport(q1, k, LONG_FORM_ABCD,
                               "There are not Full ABCD evaluated features results to display.")
                        /\ IsReport(q2, k, SHORTS,
                               "There are not Shorts evaluated features results to display.")
                  /\ \A q \in 1..Len(calls) :
                        /\ calls[q].at = k => q <= p
                        /\ calls[q].at > k => q > p

C10_Witness ==
    /\ Built
    /\ cfg.creative_provider_type = YOUTUBE
    /\ ~cfg.use_annotations /\ ~cfg.run_long_form_abcd /\ ~cfg.run_shorts
    /\ idx = 2 /\ pc = "annotate"
    /\ Cardinality(CallsAt("remove_local_video_files", 1)) = 1

LongNote == "There are not Full ABCD evaluated features results to display."

ShortsNote == "There are not Shorts evaluated features results to display."

ProcessingText == "Processing ABCD Assessment for video"

\* The place of a recorded call in the fixed order of the steps of one
\* iteration (assessment construction, step 6, makes no call).
StepRank(c) ==
    CASE c.fn \in {INFO, ERROR} /\ c.line.text \notin {LongNote, ShortsNote}
             -> 1
      [] c.fn = "generate_video_annotations" -> 2
      [] c.fn = "trim_video" -> 3
      [] c.fn = "evaluate_features" /\ c.cat = LONG_FORM_ABCD -> 4
      [] c.fn = "evaluate_features" /\ c.cat = SHORTS -> 5
      [] c.fn = "print_abcd_assessment" /\ c.cat = LONG_FORM_ABCD -> 7
      [] c.fn = INFO /\ c.line.text = LongNote -> 7
      [] c.fn = "print_abcd_assessment" /\ c.cat = SHORTS -> 8
      [] c.fn = INFO /\ c.line.text = ShortsNote -> 8
      [] c.fn = "remove_local_video_files" -> 9
      [] OTHER -> 0

\* C13: in the sequence of the calls made inside the loop every call is
\* followed by a call of a later video, or of the same video and a strictly
\* later step of the order check, annotation, trimming, long-form
\* evaluation, shorts evaluation, long-form report, shorts report, cleanup
\* (the order is transitive: no step is made twice for a video and no
\* video starts before the previous one is done); the assessment of a
\* video is built after its evaluation steps and before its reports.
C13_StepOrder ==
    /\ LET loop == SelectSeq(calls, LAMBDA c : c.at > 0)
       IN  /\ \A p \in 1..Len(loop) : StepRank(loop[p]) > 0
           /\ \A p \in 1..(Len(loop) - 1) :
                 \/ loop[p].at < loop[p + 1].at
                 \/ /\ loop[p].at = loop[p + 1].at
                    /\ StepRank(loop[p]) < StepRank(loop[p + 1])
    /\ \A p \in 1..Len(calls) :
          (calls[p].at > 0 /\ StepRank(calls[p]) >= 7) =>
              calls[p].at <= Len(assessments)
    /\ pc \in {"annotate", "trim", "eval_long", "eval_shorts", "assess"} =>
          Len(assessments) = idx - 1
    /\ Len(assessments) <= idx

C13_Witness ==
    /\ Built
    /\ cfg.creative_provider_type = GCS
    /\ cfg.use_annotations /\ cfg.run_long_form_abcd /\ cfg.run_shorts
    /\ pc = "orch_done" /\ halted = 0
    /\ Len(assessments) = 2
    /\ Len(calls) = 17

\* The reports of both tracks of iteration k have been made.
ReportingDone(k) ==
    \/ k < idx
    \/ k = idx /\ pc = "cleanup"
    \/ CallsAt("remove_local_video_files", k) # {}

ReportsAt(k, cat, note) ==
    { p \in 1..Len(calls) : IsReport(p, k, cat, note) }

\* C14: print_abcd_assessment is only called with the brand name, the
\* locator and the non-empty feature sequence of one track of the
\* assessment of its video; the note of a track is only logged when that
\* track's sequence is empty; and every video whose reporting is done has
\* exactly one report per track, the long-form one first.
C14_OneReportPerTrack ==
    Built =>
      LET trackOf(k, cat) ==
              IF cat = LONG_FORM_ABCD
              THEN assessments[k].long_form_abcd_evaluated_features
              ELSE assessments[k].shorts_evaluated_features
      IN  /\ \A p \in 1..Len(calls) :
                LET c == calls[p]
                IN  /\ c.fn = "print_abcd_assessment" =>
                          /\ c.at \in 1..Len(assessments)
                          /\ c.cat \in {LONG_FORM_ABCD, SHORTS}
                          /\ c.brand = cfg.brand_name
                          /\ c.uri = video_uris[c.at]
                          /\ c.feats = trackOf(c.at, c.cat)
                          /\ c.feats # <<>>
                    /\ (c.fn = INFO /\ c.line.text = LongNote) =>
                          /\ c.at \in 1..Len(assessments)
                          /\ trackOf(c.at, LONG_FORM_ABCD) = <<>>
                    /\ (c.fn = INFO /\ c.line.text = ShortsNote) =>
                          /\ c.at \in 1..Len(assessments)
                          /\ trackOf(c.at, SHORTS) = <<>>
                    /\ (c.fn = ERROR /\ c.at > 0) => halted = c.at
          /\ \A k \in 1..Len(video_uris) :
                ReportingDone(k) =>
                    /\ Cardinality(ReportsAt(k, LONG_FORM_ABCD, LongNote)) = 1
                    /\ Cardinality(ReportsAt(k, SHORTS, ShortsNote)) = 1
                    /\ \A p \in ReportsAt(k, LONG_FORM_ABCD, LongNote) :
                          \A q \in ReportsAt(k, SHORTS, ShortsNote) :
                              /\ p < q
                              /\ calls[p].ok /\ calls[q].ok

C14_Witness ==
    /\ Built
    /\ cfg.run_long_form_abcd /\ ~cfg.run_shorts
    /\ ReportingDone(1) /\ idx = 1
    /\ assessments[1].long_form_abcd_evaluated_features = <<>>
    /\ \E p, q \in 1..Len(calls) :
          /\ calls[p] = LogCall(INFO, 1, Line(LongNote))
          /\ calls[q] = LogCall(INFO, 1, Line(ShortsNote))

FailedCalls ==
    { p \in 1..Len(calls) : calls[p].fn \in Collaborators /\ ~calls[p].ok }

\* The logs or streams hold the trace of exception e.
HasTrace(lines, e) ==
    \E k \in 1..(Len(lines) - 1) :
        lines[k] = TraceLines(e)[1] /\ lines[k + 1] = TraceLines(e)[2]

\* C15: a collaborator call that raised is the only one that did, and the
\* last call the orchestrator made: nothing follows it but the logging of
\* the boundary; the exception is then in flight or handled; and when the
\* entry point has returned, the exception is recorded (analyse: the trace
\* in the returned logs; main: the logged error and the trace on stderr)
\* and there is no error result.
C15_CollaboratorFailurePropagates ==
    \A p \in FailedCalls :
        /\ FailedCalls = {p}
        /\ exc # ""
        /\ pc \in {"except", "returned", "after"}
        /\ \A q \in (p + 1)..Len(calls) :
              calls[q].fn \in {INFO, ERROR} /\ calls[q].at = 0
        /\ Len(assessments) <= calls[p].at
        /\ Returned =>
              IF entry = "analyse"
              THEN /\ result = <<LogsResult(buffer)>>
                   /\ HasTrace(result[1].logs, exc)
              ELSE /\ result = <<>>
                   /\ calls[Len(calls)] = LogCall(ERROR, 0, LineEx("ERROR:", exc))
                   /\ HasTrace(console, exc)

C15_Witness ==
    /\ entry = "main" /\ Returned
    /\ Len(video_uris) = 2
    /\ \E p \in FailedCalls :
          /\ calls[p].fn = "evaluate_features"
          /\ calls[p].at = 1

\* C16 (as claimed): when the entry point has returned, every call of
\* generate_video_annotations or trim_video is followed by a call of
\* remove_local_video_files.
C16_ArtifactsCleanedOnEveryExit ==
    Returned =>
      \A p \in 1..Len(calls) :
          calls[p].fn \in {"generate_video_annotations", "trim_video"} =>
              \E q \in (p + 1)..Len(calls) :
                  calls[q].fn = "remove_local_video_files"

ProviderCalls == { p \in 1..Len(calls) : calls[p].fn = "get_creative_uris" }

\* C17: the provider is called at most once, exactly once as soon as the
\* orchestrator is past its first statement, before any call of the loop;
\* the loop runs over exactly the locators that call returned, in order:
\* every call at loop position k carries the k-th returned locator and a
\* loop that ends without break or exception has completed every returned
\* locator; with a non-empty config.video_uris and an empty returned
\* sequence the only collaborator call is the provider's and the run is
\* reported as finished, without error.
C17_LoopOverProviderSequence ==
    Built =>
      /\ Cardinality(ProviderCalls) <= 1
      /\ (InOrchestrator /\ pc # "get_uris") => Cardinality(ProviderCalls) = 1
      /\ ProviderCalls # {} => HasVideos(cfg) /\ ~invalid_brand_metadata(cfg)
      /\ \A g \in ProviderCalls :
            LET returned == calls[g].uris
            IN  /\ \A q \in 1..(g - 1) :
                      calls[q].at = 0 /\ calls[q].fn \notin Collaborators
                /\ \A q \in 1..Len(calls) :
                      calls[q].at > 0 =>
                          /\ g < q
                          /\ calls[g].ok
                          /\ calls[q].at <= Len(returned)
                          /\ calls[q].fn # "remove_local_video_files" =>
                                calls[q].uri \in {<<>>, returned[calls[q].at]}
                          /\ calls[q].line.text = ProcessingText =>
                                calls[q].uri = returned[calls[q].at]
                /\ \A k \in 1..Len(assessments) :
                      assessments[k].video_uri = returned[k]
                /\ (pc = "orch_done" /\ halted = 0) =>
                      /\ Len(assessments) = Len(returned)
                      /\ \A k \in 1..Len(returned) : Completed(k)
                /\ (Returned /\ exc = "" /\ returned = <<>>) =>
                      /\ CollaboratorCalls = {g}
                      /\ IF entry = "analyse"
                         THEN /\ DOMAIN result[1] = {"logs"}
                              /\ HasLine(result[1].logs,
                                         "Finished ABCD assessment.")
                         ELSE \E q \in 1..Len(calls) :
                                 calls[q] = LogCall(INFO, 0,
                                     Line("Finished ABCD assessment."))

C17_Witness ==
    /\ entry = "analyse" /\ Returned /\ exc = ""
    /\ Built /\ cfg.video_uris # <<>>
    /\ \E g \in ProviderCalls : calls[g].ok /\ calls[g].uris = <<>>
    /\ HasLine(result[1].logs, "Finished ABCD assessment.")

\* C18: the configuration is built at most once, at the build step and
\* before the metadata check; once built it never changes, nor do the
\* arguments; every assessment carries that configuration.
C18_ConfigReadOnly ==
    /\ [](/\ builds <= 1
          /\ Built <=> builds = 1
          /\ (pc \in {"validate", "dispatch"} \/ InOrchestrator) => Built
          /\ Built => cfg \in build_custom_config(args)
          /\ \A k \in 1..Len(assessments) : assessments[k].config = cfg)
    /\ [][/\ args' = args
          /\ config # <<>> => config' = config
          /\ config' # config => pc = "build" /\ builds' = builds + 1
          /\ config' = config => builds' = builds]_vars

C18_Witness ==
    /\ Built /\ builds = 1
    /\ cfg.creative_provider_type = GCS
    /\ cfg.use_annotations /\ cfg.run_long_form_abcd
    /\ Len(assessments) = 2
    /\ Cardinality({ p \in 1..Len(calls) : calls[p].fn = "trim_video" }) = 2

\* ------------------------------------------------- the orchestrator twice
\* The calls the orchestrator makes: those of the collaborators and the
\* logging inside the loop (the entry points log at position 0).
OrchestratorCalls(trace) ==
    SelectSeq(trace, LAMBDA c : c.fn \in Collaborators \/ c.at > 0)

\* What is kept of a finished run to compare the next one with: the calls
\* its orchestrator made, its records and how it ended.
Snapshot ==
    [calls |-> OrchestratorCalls(calls), assessments |-> assessments, exc |-> exc,
     halted |-> halted, config |-> config, result |-> result]

\* The call's arguments: what the collaborator is given.
SameInput(a, b) ==
    /\ a.fn = b.fn
    /\ a.uri = b.uri
    /\ a.cat = b.cat
    /\ a.brand = b.brand
    /\ a.fn = "print_abcd_assessment" => a.feats = b.feats

\* The call's outcome: whether it raised, and what it returned.
SameOutput(a, b) ==
    /\ a.ok = b.ok
    /\ a.uris = b.uris
    /\ a.fn = "evaluate_features" => a.feats = b.feats

\* The collaborators are stubs with deterministic output: a call of the
\* later run that is given what the call at the same place of the earlier
\* run was given has the same outcome (raises or not, returns the same).
\* It is required after every step, so it is stated of the latest call.
Replayed ==
    run1 # <<>> =>
        LET now == OrchestratorCalls(calls)
            then == run1[1].calls
            j == Len(now)
        IN  (j \in 1..Len(then) /\ SameInput(now[j], then[j]))
                => SameOutput(now[j], then[j])

\* Rerun when the records built so far live in a module-level list that
\* the second invocation goes on appending to.
Rerun_KeepsAssessments ==
    /\ pc \in {"orch_done", "except"}
    /\ run1 = <<>>
    /\ run1' = <<Snapshot>>
    /\ pc' = "get_uris"
    /\ exc' = ""
    /\ video_uris' = <<>>
    /\ idx' = 0
    /\ long_feats' = <<>>
    /\ shorts_feats' = <<>>
    /\ assessments' = assessments
    /\ calls' = <<>>
    /\ halted' = 0
    /\ UNCHANGED << redirected, buffer, console >>
    /\ UNCHANGED wrapper_vars

\* execute_abcd_assessment_for_videos(config) is invoked a second time
\* with the same config object: a new call frame, so every local starts
\* afresh; the module holds no state of its own (analyse.py:38-49).
Rerun ==
    /\ pc \in {"orch_done", "except"}
    /\ run1 = <<>>
    /\ run1' = <<Snapshot>>
    /\ pc' = "get_uris"
    /\ exc' = ""
    /\ video_uris' = <<>>
    /\ idx' = 0
    /\ long_feats' = <<>>
    /\ shorts_feats' = <<>>
    /\ assessments' = <<>>
    /\ calls' = <<>>
    /\ halted' = 0
    /\ UNCHANGED << redirected, buffer, console >>
    /\ UNCHANGED wrapper_vars

\* The orchestrator is invoked directly with a configuration already built.
InitTwice ==
    /\ entry = "execute_abcd_assessment_for_videos"
    /\ args \in [video_uris : ArgVideoUris \ {<<>>}, brand : BrandInputs]
    /\ \E c \in build_custom_config(args) :
          ~invalid_brand_metadata(c) /\ config = <<c>>
    /\ builds = 1
    /\ pc = "get_uris"
    /\ redirected = FALSE
    /\ buffer = <<>>
    /\ console = <<>>
    /\ exc = ""
    /\ result = <<>>
    /\ video_uris = <<>>
    /\ idx = 0
    /\ long_feats = <<>>
    /\ shorts_feats = <<>>
    /\ assessments = <<>>
    /\ calls = <<>>
    /\ halted = 0
    /\ run1 = <<>>

NextTwice ==
    \/ GetCreativeUris /\ Replayed'
    \/ ConsistencyCheck /\ Replayed'
    \/ GenerateAnnotations /\ Replayed'
    \/ TrimVideo /\ Replayed'
    \/ EvaluateLongForm /\ Replayed'
    \/ EvaluateShorts /\ Replayed'
    \/ BuildAssessment /\ Replayed'
    \/ ReportLongForm /\ Replayed'
    \/ ReportShorts /\ Replayed'
    \/ RemoveLocalFiles /\ Replayed'
    \/ Rerun

SpecTwice == InitTwice /\ [][NextTwice]_vars

\* The four fields of a Video Assessment record.
Record(va) ==
    << va.brand_name, va.video_uri, va.long_form_abcd_evaluated_features,
       va.shorts_evaluated_features >>

SwitchToMain ==
    /\ entry = "analyse" /\ pc = "returned"
    /\ run1 = <<>>
    /\ run1' = <<Snapshot>>
    /\ entry' = "main"
    /\ pc' = "call"
    /\ config' = <<>>
    /\ builds' = 0
    /\ result' = <<>>
    /\ exc' = ""
    /\ buffer' = <<>>
    /\ console' = <<>>
    /\ video_uris' = <<>>
    /\ idx' = 0
    /\ long_feats' = <<>>
    /\ shorts_feats' = <<>>
    /\ assessments' = <<>>
    /\ calls' = <<>>
    /\ halted' = 0
    /\ UNCHANGED << args, redirected >>

\* Both entry points are given the same world: the configuration main
\* builds is the one analyse built, and the collaborators are deterministic.
SameWorld ==
    /\ Replayed
    /\ (run1 # <<>> /\ config # <<>> /\ run1[1].config # <<>>) =>
          config = run1[1].config

\* analyse is invoked first; one invalid and one valid brand input.
InitBoth ==
    /\ Init
    /\ entry = "analyse"
    /\ args.brand.details = <<>>

NextBoth ==
    \/ AnalyseEnter
    \/ AnalyseBuildConfig
    \/ AnalyseValidate
    \/ AnalyseDispatch
    \/ AnalyseFinish
    \/ AnalyseExcept
    \/ SwitchToMain
    \/ MainParseArgs
    \/ MainBuildConfig /\ SameWorld'
    \/ MainValidate
    \/ MainDispatch
    \/ MainFinish
    \/ MainExcept
    \/ GetCreativeUris /\ SameWorld'
    \/ ConsistencyCheck /\ SameWorld'
    \/ GenerateAnnotations /\ SameWorld'
    \/ TrimVideo /\ SameWorld'
    \/ EvaluateLongForm /\ SameWorld'
    \/ EvaluateShorts /\ SameWorld'
    \/ BuildAssessment /\ SameWorld'
    \/ ReportLongForm /\ SameWorld'
    \/ ReportShorts /\ SameWorld'
    \/ RemoveLocalFiles /\ SameWorld'

SpecBoth == InitBoth /\ [][NextBoth]_vars

\* The messages of the entry points themselves.
WrapperMessages ==
    { "Starting ABCD assessment...", "There are no videos to process.",
      "Finished ABCD assessment.", "ABCD assessment took" }

\* Positions of main's logging of message text.
MainLogged(level, text) ==
    { p \in 1..Len(calls) : calls[p] = LogCall(level, 0, Line(text)) }

\* C12: main returns no result and writes nothing to a buffer; an exception
\* inside main is always handled there (logged as an error, the trace on
\* stderr) and main returns; main calls no collaborator before it has
\* logged the start, which it does only with valid metadata; and when main
\* has returned on the configuration analyse ran on before, with the same
\* deterministic collaborators, the two runs made the same orchestrator
\* calls, built the same assessments, ended with the same exception or
\* none, halted at the same position, took the same branch of the metadata
\* check and of the emptiness check, and every message analyse printed
\* into its logs main sent to the logger.
C12_EntryPointsAgree ==
    entry = "main" =>
      /\ result = <<>>
      /\ buffer = <<>>
      /\ ~redirected
      /\ pc = "except" => ENABLED MainExcept
      /\ (Returned /\ exc # "") =>
            /\ calls[Len(calls)] = LogCall(ERROR, 0, LineEx("ERROR:", exc))
            /\ HasTrace(console, exc)
      /\ \A p \in CollaboratorCalls :
            /\ \E q \in MainLogged(INFO, "Starting ABCD assessment...") : q < p
            /\ ~invalid_brand_metadata(cfg) /\ HasVideos(cfg)
      /\ (Returned /\ Built /\ run1 # <<>> /\ run1[1].config # <<>>) =>
            LET r == run1[1]
                logs == r.result[1].logs
            IN  /\ config = r.config
                /\ OrchestratorCalls(calls) = r.calls
                /\ assessments = r.assessments
                /\ exc = r.exc
                /\ halted = r.halted
                /\ ("error" \in DOMAIN r.result[1]) <=>
                      (MainLogged(ERROR, "Please enable the option or define brand details.") # {})
                /\ ("error" \in DOMAIN r.result[1]) <=>
                      invalid_brand_metadata(cfg)
                /\ \A m \in WrapperMessages :
                      HasLine(logs, m) <=> (MainLogged(INFO, m) # {})

C12_Witness ==
    /\ entry = "main" /\ Returned /\ Built
    /\ run1 # <<>> /\ run1[1].config = config
    /\ exc = ""
    /\ Len(assessments) = 2
    /\ Len(run1[1].assessments) = 2
    /\ MainLogged(INFO, "Finished ABCD assessment.") # {}

====
